---- MODULE Spec2Model ----
(***************************************************************************)
(* The Baserow pipeline of kensuke0529/Tool_Kit as a state machine.        *)
(*                                                                         *)
(*   Fetcher      baserow_api/scripts/baserow/fetch_baserow_tables.py      *)
(*   Denormalizer baserow_api/scripts/process_for_web.py                   *)
(*                                                                         *)
(* Spec       the Fetcher's main(): validate_config, then one              *)
(*            fetch_table_with_pagination + export_to_json per table.      *)
(* FetchSpec  one call of fetch_table_with_pagination with its arguments   *)
(*            (the server's page chain, the row limit) drawn from bounded  *)
(*            sets.                                                        *)
(* FetchLiveSpec  FetchSpec with weak fairness of the call's steps.         *)
(* DenormSpec the Denormalizer's main() on snapshots drawn from bounded    *)
(*            sets.                                                        *)
(* MissingFieldSpec  the same main() on snapshots with a row that lacks a  *)
(*            field or holds null for a list.                              *)
(***************************************************************************)
EXTENDS Integers, Sequences, FiniteSets, TLC

VARIABLES
    \* ---- Fetcher, program state
    token,            \* BASEROW_TOKEN is a non-empty string
    pc,               \* position of the Fetcher process
    tbl,              \* index into TableOrder of the table being fetched (0: none yet)
    limit,            \* argument `limit` of the running call (None or <<L>>)
    url,              \* page the local `url` points at (Null: no next page)
    attempt,          \* loop variable of `for attempt in range(MAX_RETRIES)`
    response,         \* local `response` (None or <<[status, body]>>)
    all_rows,         \* local `all_rows`
    files,            \* snapshot files written: table name -> rows
    results_summary,  \* main's results_summary: table name -> [rows, status]
    exit_status,      \* process exit status (NotExited while running)
    \* ---- Fetcher, environment and history
    chain,            \* the server's pages of the current table: page sizes
    hist,             \* outcomes the server gave to the requests of the current page
    slept,            \* delays passed to time.sleep for the current page
    served,           \* rows delivered in well-formed 200 pages of the current table
    reqPages,         \* pages of the current table an HTTP request was issued for
    fatal,            \* tables a fatal fetch failure was served to
    failures,         \* failed attempts of one call over all its pages (kept by FetchSpec)
    \* ---- Denormalizer
    dpc,              \* position of the Denormalizer process
    companies,        \* snapshot companies.json
    tools,            \* snapshot tools.json
    tools_by_id,      \* main's lookup dictionaries
    companies_by_id,
    web_companies,
    web_tools,
    search_index,
    all_tags,
    stats,
    out               \* files written to data/web: file name -> content

fvars == <<token, pc, tbl, limit, url, attempt, response, all_rows, files,
           results_summary, exit_status, chain, hist, slept, served, reqPages, fatal>>
dvars == <<dpc, companies, tools, tools_by_id, companies_by_id, web_companies,
           web_tools, search_index, all_tags, stats, out>>
vars == <<fvars, dvars, failures>>

-----------------------------------------------------------------------------
(* Bounds of the model *)

MaxPages == 2        \* pages in a server chain
PageSize == 2        \* rows on one page
MaxLimit == 3        \* largest row limit passed to fetch_table_with_pagination
MaxRows == 2         \* rows in a snapshot
MaxRefs == 2         \* references in one row's reference list
MaxTags == 2         \* tags in a tools snapshot, over all its rows

-----------------------------------------------------------------------------
(* Generic helpers *)

None == <<>>                       \* Python's None for an Optional value
Some(x) == <<x>>
Min(a, b) == IF a <= b THEN a ELSE b

RECURSIVE Sum(_)
Sum(s) == IF s = <<>> THEN 0 ELSE s[1] + Sum(Tail(s))

\* Python's d[k] = v on a dict modelled as a function
Put(d, k, v) == [x \in DOMAIN d \cup {k} |-> IF x = k THEN v ELSE d[x]]

EmptyDict == [x \in {} |-> 0]

-----------------------------------------------------------------------------
(* Fetcher: configuration *)

TableOrder == <<"companies", "tools", "libraries">>
Tables == {TableOrder[i] : i \in DOMAIN TableOrder}

MAX_RETRIES == 3
RETRY_DELAYS == <<1, 2, 4>>

NotExited == -1
Null == 0                          \* JSON null for the `next` pointer
TransportFailure == 0              \* outcome: requests.get raised RequestException

\* Statuses the modelled server answers with
Statuses == {200, 204, 404, 429, 501, 503}
Outcomes == Statuses \cup {TransportFailure}

\* Outcomes that count as a failed attempt for the history variable `fatal`
\* (read off the responses alone, not off the program's reaction)
TransientOutcomes == {429, 500, 502, 503, 504, TransportFailure}

-----------------------------------------------------------------------------
(* Fetcher: the server *)

\* A chain is the sequence of its pages' sizes; the rows of the table are
\* numbered 1, 2, ... in page order.
RECURSIVE SeqsUpTo(_, _)
SeqsUpTo(S, n) ==
    IF n = 0 THEN {<<>>}
    ELSE LET shorter == SeqsUpTo(S, n - 1)
         IN  shorter \cup {Append(s, x) : s \in {t \in shorter : Len(t) = n - 1}, x \in S}

Chains == SeqsUpTo(0..PageSize, MaxPages) \ {<<>>}

Offset(c, p) == Sum(SubSeq(c, 1, p - 1))
PageRows(c, p) == [i \in 1..c[p] |-> Offset(c, p) + i]
NextPointer(c, p) == IF p < Len(c) THEN p + 1 ELSE Null

\* The JSON document of a response body; "page" is a well-formed page,
\* "error" an error document without `results`/`next`.
Document(c, p, body) ==
    IF body = "page"
    THEN [results |-> Some(PageRows(c, p)), next |-> NextPointer(c, p)]
    ELSE [results |-> None, next |-> Null]

-----------------------------------------------------------------------------
(* Fetcher: fetch_table_with_pagination *)

IsSuccess(status) == status = 200

\* line 101 (IsRetryableAll5xx: the faulty variant that retries every 5xx)
IsRetryableAll5xx(status) == status = 429 \/ status \in 500..599
IsRetryable(status) == status \in {429, 500, 502, 503, 504}

\* line 102 (HasAttemptsLeftOffByOne: the faulty variant `attempt < MAX_RETRIES`)
HasAttemptsLeftOffByOne(a) == a < MAX_RETRIES
HasAttemptsLeft(a) == a < MAX_RETRIES - 1

\* line 103 (DelayConstant: the faulty variant without increasing backoff)
DelayConstant(a) == RETRY_DELAYS[1]
Delay(a) == RETRY_DELAYS[a + 1]

\* data.get("results", [])
Results(data) == IF data.results = None THEN <<>> ELSE data.results[1]

\* line 133 (ExtendReversed: the faulty variant that prepends the page)
ExtendReversed(rows, page) == page \o rows
Extend(rows, page) == rows \o page

\* `limit and len(all_rows) >= limit`
LimitReached(rows, l) == l # None /\ l[1] # 0 /\ Len(rows) >= l[1]

\* all_rows[:limit]
Slice(rows, n) == SubSeq(rows, 1, Min(n, Len(rows)))

\* line 141 (NextUrlSame: the faulty variant that never advances `url`)
NextUrlSame(data, u) == u
NextUrl(data, u) == data.next

\* line 92, entered for a new page: range(MAX_RETRIES) starts over
\* (FirstAttemptCarried: the faulty variant with one counter for the table)
FirstAttemptCarried(a) == a
FirstAttempt(a) == 0

\* The for loop moves on after a `continue` / a handled exception: the next
\* attempt, or past the loop when range(MAX_RETRIES) is used up.
AfterAttempt(a) == IF a + 1 < MAX_RETRIES THEN "request" ELSE "parse"

FatalServed(h) ==
    \/ h[Len(h)] \notin TransientOutcomes \cup {200}
    \/ /\ Len(h) >= MAX_RETRIES
       /\ \A i \in 1..MAX_RETRIES : h[i] \in TransientOutcomes

\* What a request changes outside the program: the history variables.
Observe(o, body) ==
    /\ hist' = Append(hist, o)
    /\ reqPages' = reqPages \cup {url}
    /\ served' = IF o = 200 /\ body = "page"
                 THEN served \o PageRows(chain, url)
                 ELSE served
    /\ fatal' = IF FatalServed(Append(hist, o)) THEN fatal \cup {TableOrder[tbl]} ELSE fatal

SysExit ==
    /\ pc' = "exited"
    /\ exit_status' = 1

\* lines 94-98: the request is answered 200
RequestSuccess ==
    /\ pc = "request"
    /\ \E o \in Statuses, body \in {"page", "garbage"} :
        /\ IsSuccess(o)
        /\ response' = Some([status |-> o, body |-> body])
        /\ pc' = "parse"
        /\ Observe(o, body)
    /\ UNCHANGED <<token, tbl, limit, url, attempt, all_rows, files, results_summary,
                   exit_status, chain, slept>>

\* lines 101-109: rate limiting or server error
RequestRetryable ==
    /\ pc = "request"
    /\ \E o \in Statuses :
        /\ ~IsSuccess(o)
        /\ IsRetryable(o)
        /\ response' = Some([status |-> o, body |-> "error"])
        /\ Observe(o, "error")
        /\ IF HasAttemptsLeft(attempt)
           THEN /\ slept' = Append(slept, Delay(attempt))
                /\ attempt' = attempt + 1
                /\ pc' = AfterAttempt(attempt)
                /\ UNCHANGED exit_status
           ELSE /\ SysExit
                /\ UNCHANGED <<slept, attempt>>
    /\ UNCHANGED <<token, tbl, limit, url, all_rows, files, results_summary, chain>>

\* lines 112-114: any other status
RequestOtherStatus ==
    /\ pc = "request"
    /\ \E o \in Statuses :
        /\ ~IsSuccess(o)
        /\ ~IsRetryable(o)
        /\ response' = Some([status |-> o, body |-> "error"])
        /\ Observe(o, "error")
        /\ SysExit
    /\ UNCHANGED <<token, tbl, limit, url, attempt, all_rows, files, results_summary,
                   chain, slept>>

\* lines 116-123: requests.get raised; `response` keeps its value
RequestException ==
    /\ pc = "request"
    /\ Observe(TransportFailure, "error")
    /\ IF HasAttemptsLeft(attempt)
       THEN /\ slept' = Append(slept, Delay(attempt))
            /\ attempt' = attempt + 1
            /\ pc' = AfterAttempt(attempt)
            /\ UNCHANGED exit_status
       ELSE /\ SysExit
            /\ UNCHANGED <<slept, attempt>>
    /\ UNCHANGED <<token, tbl, limit, url, response, all_rows, files, results_summary,
                   chain>>

\* lines 126-145, the body could not be read: response is None (AttributeError)
\* or the body is no JSON (response.json() raises)
ParseRaises ==
    /\ pc = "parse"
    /\ IF response = None THEN TRUE ELSE response[1].body = "garbage"
    /\ pc' = "raised"
    /\ UNCHANGED <<token, tbl, limit, url, attempt, response, all_rows, files,
                   results_summary, exit_status, chain, hist, slept, served, reqPages,
                   fatal>>

\* lines 126-145: parse the page, accumulate, follow `next` or return
ParsePage ==
    /\ pc = "parse"
    /\ response # None
    /\ response[1].body # "garbage"
    /\ LET data == Document(chain, url, response[1].body)
           rows == Results(data)
           acc  == Extend(all_rows, rows)
       IN  IF rows = <<>>
           THEN /\ pc' = "returned"
                /\ UNCHANGED <<all_rows, url, attempt, response, hist, slept>>
           ELSE IF LimitReached(acc, limit)
           THEN /\ all_rows' = Slice(acc, limit[1])
                /\ pc' = "returned"
                /\ UNCHANGED <<url, attempt, response, hist, slept>>
           ELSE /\ all_rows' = acc
                /\ url' = NextUrl(data, url)
                /\ IF NextUrl(data, url) = Null
                   THEN /\ pc' = "returned"
                        /\ UNCHANGED <<attempt, response, hist, slept>>
                   ELSE /\ pc' = "request"
                        /\ attempt' = FirstAttempt(attempt)
                        /\ response' = None
                        /\ hist' = <<>>
                        /\ slept' = <<>>
    /\ UNCHANGED <<token, tbl, limit, files, results_summary, exit_status, chain,
                   served, reqPages, fatal>>

FetchStep ==
    \/ RequestSuccess
    \/ RequestRetryable
    \/ RequestOtherStatus
    \/ RequestException
    \/ ParseRaises
    \/ ParsePage

-----------------------------------------------------------------------------
(* Fetcher: main *)

\* line 50 (ConfigValidAlways: the faulty variant without the token check)
ConfigValidAlways(tok) == TRUE
ConfigValid(tok) == tok

\* lines 48-55
ValidateConfig ==
    /\ pc = "validate"
    /\ IF ConfigValid(token)
       THEN /\ pc' = "ensure_dir"
            /\ UNCHANGED exit_status
       ELSE SysExit
    /\ UNCHANGED <<token, tbl, limit, url, attempt, response, all_rows, files,
                   results_summary, chain, hist, slept, served, reqPages, fatal>>

\* lines 58-61
EnsureOutputDirectory ==
    /\ pc = "ensure_dir"
    /\ pc' = "loop"
    /\ UNCHANGED <<token, tbl, limit, url, attempt, response, all_rows, files,
                   results_summary, exit_status, chain, hist, slept, served, reqPages,
                   fatal>>

\* lines 168-170 and 77-87: the next table; main passes no limit
StartTable ==
    /\ pc = "loop"
    /\ tbl < Len(TableOrder)
    /\ tbl' = tbl + 1
    /\ chain' \in Chains
    /\ limit' = None
    /\ all_rows' = <<>>
    /\ url' = 1
    /\ attempt' = 0
    /\ response' = None
    /\ hist' = <<>>
    /\ slept' = <<>>
    /\ served' = <<>>
    /\ reqPages' = {}
    /\ pc' = "request"
    /\ UNCHANGED <<token, files, results_summary, exit_status, fatal>>

\* lines 171-176 and 148-155
ExportTable ==
    /\ pc = "returned"
    /\ files' = Put(files, TableOrder[tbl], all_rows)
    /\ results_summary' = Put(results_summary, TableOrder[tbl],
                              [rows |-> Len(all_rows), status |-> "success"])
    /\ pc' = "loop"
    /\ UNCHANGED <<token, tbl, limit, url, attempt, response, all_rows, exit_status,
                   chain, hist, slept, served, reqPages, fatal>>

\* lines 178-183
HandleException ==
    /\ pc = "raised"
    /\ results_summary' = Put(results_summary, TableOrder[tbl],
                              [rows |-> 0, status |-> "failed"])
    /\ pc' = "loop"
    /\ UNCHANGED <<token, tbl, limit, url, attempt, response, all_rows, files,
                   exit_status, chain, hist, slept, served, reqPages, fatal>>

\* line 185
Finish ==
    /\ pc = "loop"
    /\ tbl = Len(TableOrder)
    /\ pc' = "done"
    /\ exit_status' = 0
    /\ UNCHANGED <<token, tbl, limit, url, attempt, response, all_rows, files,
                   results_summary, chain, hist, slept, served, reqPages, fatal>>

-----------------------------------------------------------------------------
(* Denormalizer: rows and snapshots *)

\* A row is a Python dict: a function from its field names. Only the fields
\* the derived artifacts are computed from are kept: id, UUID, the name, the
\* reference list and the tag list, and of the fields copied through with
\* .get(field, default) the URL that the search index reads (Notes,
\* descriptions, rating, cost are left out).

\* row.get(k, default)
Get(row, k, default) == IF k \in DOMAIN row THEN row[k] ELSE default

ToolId(j) == 10 + j
Ref(n) == [id |-> n]

CompanyRow(i, refs) ==
    ("id" :> i) @@ ("UUID" :> <<"c", i>>) @@ ("Company Name" :> <<"Company", i>>)
    @@ ("Tools" :> refs)

ToolRow(j, refs, tags) ==
    ("id" :> ToolId(j)) @@ ("UUID" :> <<"t", j>>) @@ ("ToolName" :> <<"Tool", j>>)
    @@ ("ToolCompany" :> refs) @@ ("Tool Tags" :> tags)

\* Tag names in alphabetical order, and the tag option records of the inputs
\* (the last one carries no color)
TagNames == <<"ai", "ml">>
TagValues ==
    { [value |-> "ai", color |-> "blue"], [value |-> "ai", color |-> "red"],
      [value |-> "ml", color |-> "blue"], [value |-> "ml"] }

RefLists(ids) == SeqsUpTo({Ref(n) : n \in ids}, MaxRefs)

\* Tag lists of n tools holding at most `budget` tags together
RECURSIVE TagListSeqs(_, _)
TagListSeqs(n, budget) ==
    IF n = 0 THEN {<<>>}
    ELSE UNION { {Append(ls, l) : ls \in TagListSeqs(n - 1, budget - Len(l))}
                 : l \in SeqsUpTo(TagValues, budget) }

PlainCompany(i) == CompanyRow(i, <<>>)
PlainTool(j) == ToolRow(j, <<>>, <<[value |-> "ml", color |-> "blue"]>>)

\* Snapshots of n rows
ReferringCompanies(n) ==
    {[i \in 1..n |-> CompanyRow(i, refs[i])] :
        refs \in [1..n -> RefLists({ToolId(1), ToolId(2)})]}
ReferringTools(n) ==
    {[j \in 1..n |-> ToolRow(j, refs[j], <<>>)] : refs \in [1..n -> RefLists({1, 2})]}
PlainCompanies(n) == [i \in 1..n |-> PlainCompany(i)]
PlainTools(n) == [j \in 1..n |-> PlainTool(j)]

\* companies with reference lists over the ids of the first two tools, against
\* 0..MaxRows tools (a reference dangles when the tool's row is not there)
CompanyJoinInputs(rows) ==
    { <<cs, PlainTools(m)>> : cs \in UNION {ReferringCompanies(n) : n \in 0..rows},
                              m \in 0..rows }

\* the same for tools referring to companies
ToolJoinInputs(rows) ==
    { <<PlainCompanies(m), ts>> : m \in 0..rows,
                                  ts \in UNION {ReferringTools(n) : n \in 0..rows} }

\* tools with tag lists, no companies
TagInputs(rows) ==
    { <<<<>>, [j \in DOMAIN ls |-> ToolRow(j, <<>>, ls[j])]>> :
        ls \in UNION {TagListSeqs(n, MaxTags) : n \in 0..rows} }

\* JSON null in the place of a list: a value that is no sequence
JsonNull == 0 :> 0
IsNull(v) == 0 \in DOMAIN v

\* A row without the field k
Without(row, k) == [x \in DOMAIN row \ {k} |-> row[x]]

\* Rows that lack one field the Denormalizer reads, or hold null for a list
DefectiveCompanies(i) ==
    {Without(CompanyRow(i, <<Ref(ToolId(1))>>), k) : k \in {"UUID", "Company Name", "Tools"}}
    \cup {Put(CompanyRow(i, <<>>), "Tools", JsonNull)}
DefectiveTools(j) ==
    {Without(ToolRow(j, <<Ref(1)>>, <<[value |-> "ai", color |-> "red"]>>), k) :
        k \in {"UUID", "ToolName", "ToolCompany", "Tool Tags"}}
    \cup {ToolRow(j, <<Ref(1)>>, <<[color |-> "red"]>>),
          Put(ToolRow(j, <<>>, <<>>), "ToolCompany", JsonNull),
          Put(ToolRow(j, <<>>, <<>>), "Tool Tags", JsonNull)}

\* Snapshots whose last company (tool) is such a row; the rows of the other
\* snapshot refer to the first company (tool)
MissingFieldInputs(rows) ==
    UNION { { <<Append(PlainCompanies(n - 1), c),
                [j \in 1..m |-> ToolRow(j, <<Ref(1)>>, <<>>)]>> :
                c \in DefectiveCompanies(n), m \in 0..rows }
            \cup
            { <<[i \in 1..m |-> CompanyRow(i, <<Ref(ToolId(1))>>)],
                Append(PlainTools(n - 1), t)>> :
                t \in DefectiveTools(n), m \in 0..rows }
            : n \in 1..rows }

\* The snapshots of at most `rows` rows the Denormalizer is run on
SnapshotInputs(rows) == CompanyJoinInputs(rows) \cup ToolJoinInputs(rows) \cup TagInputs(rows)

-----------------------------------------------------------------------------
(* Denormalizer: process_for_web.py *)

\* {r['id']: r for r in rows}: the last row of an id wins
ById(rows) ==
    [n \in {rows[k]["id"] : k \in DOMAIN rows} |->
        rows[CHOOSE k \in DOMAIN rows :
                /\ rows[k]["id"] = n
                /\ \A m \in DOMAIN rows : rows[m]["id"] = n => m <= k]]

\* index.get(ref['id']) followed by `if row:` (ResolvesAlways: the faulty
\* variant without the `if`)
ResolvesAlways(index, ref) == TRUE
Resolves(index, ref) == ref.id \in DOMAIN index

\* index.get(id): None for an id that is not there
Lookup(index, n) == IF n \in DOMAIN index THEN Some(index[n]) ELSE None

Resolved(index, refs) == SelectSeq(refs, LAMBDA ref : Resolves(index, ref))

\* lines 47-56
EmbeddedTool(tool) ==
    [id   |-> tool["UUID"],
     name |-> tool["ToolName"],
     tags |-> [k \in DOMAIN Get(tool, "Tool Tags", <<>>) |->
                  Get(tool, "Tool Tags", <<>>)[k].value]]

\* lines 89-93
EmbeddedCompany(comp) ==
    [id |-> comp["UUID"], name |-> comp["Company Name"]]

\* A subscript the code applies that has nothing to answer it (KeyError, or
\* TypeError on None)
TagsRaise(row) ==
    IF IsNull(Get(row, "Tool Tags", <<>>)) THEN TRUE
    ELSE \E k \in DOMAIN Get(row, "Tool Tags", <<>>) :
            "value" \notin DOMAIN Get(row, "Tool Tags", <<>>)[k]

CompanyRaises(company, index) ==
    \/ IF IsNull(Get(company, "Tools", <<>>)) THEN TRUE
       ELSE \E k \in DOMAIN Get(company, "Tools", <<>>) :
               LET ref == Get(company, "Tools", <<>>)[k]
               IN  IF "id" \notin DOMAIN ref THEN TRUE
                   ELSE /\ Resolves(index, ref)
                        /\ IF Lookup(index, ref.id) = None THEN TRUE
                           ELSE LET tool == Lookup(index, ref.id)[1]
                                IN  IF {"UUID", "ToolName"} \ DOMAIN tool # {} THEN TRUE
                                    ELSE TagsRaise(tool)
    \/ {"UUID", "Company Name"} \ DOMAIN company # {}

ToolRaises(tool, index) ==
    \/ IF IsNull(Get(tool, "ToolCompany", <<>>)) THEN TRUE
       ELSE \E k \in DOMAIN Get(tool, "ToolCompany", <<>>) :
               LET ref == Get(tool, "ToolCompany", <<>>)[k]
               IN  IF "id" \notin DOMAIN ref THEN TRUE
                   ELSE /\ Resolves(index, ref)
                        /\ IF Lookup(index, ref.id) = None THEN TRUE
                           ELSE {"UUID", "Company Name"}
                                    \ DOMAIN Lookup(index, ref.id)[1] # {}
    \/ TagsRaise(tool)
    \/ {"UUID", "ToolName"} \ DOMAIN tool # {}

\* lines 41-65: one company
WebCompany(company, index) ==
    LET company_tools ==
            [k \in DOMAIN Resolved(index, Get(company, "Tools", <<>>)) |->
                EmbeddedTool(index[Resolved(index, Get(company, "Tools", <<>>))[k].id])]
    IN  [id         |-> company["UUID"],
         name       |-> company["Company Name"],
         url        |-> Get(company, "URL", ""),
         tools      |-> company_tools,
         tool_count |-> Len(company_tools)]

\* lines 96-102: the color kept for a name is the one assigned last
TagColors(tags) ==
    [n \in {tags[k].value : k \in {m \in DOMAIN tags : "color" \in DOMAIN tags[m]}} |->
        tags[CHOOSE k \in DOMAIN tags :
                /\ tags[k].value = n /\ "color" \in DOMAIN tags[k]
                /\ \A m \in DOMAIN tags :
                      (tags[m].value = n /\ "color" \in DOMAIN tags[m]) => m <= k].color]

\* lines 83-116: one tool
WebTool(tool, index) ==
    [id         |-> tool["UUID"],
     name       |-> tool["ToolName"],
     tags       |-> [k \in DOMAIN Get(tool, "Tool Tags", <<>>) |->
                        Get(tool, "Tool Tags", <<>>)[k].value],
     tag_colors |-> TagColors(Get(tool, "Tool Tags", <<>>)),
     companies  |-> [k \in DOMAIN Resolved(index, Get(tool, "ToolCompany", <<>>)) |->
                        EmbeddedCompany(
                            index[Resolved(index, Get(tool, "ToolCompany", <<>>))[k].id])],
     url        |-> Get(tool, "URL", "")]

\* lines 165-170: the first tool that has a name gives its color
TagsDict(wtools) ==
    [n \in UNION {DOMAIN wtools[j].tag_colors : j \in DOMAIN wtools} |->
        wtools[CHOOSE j \in DOMAIN wtools :
                  /\ n \in DOMAIN wtools[j].tag_colors
                  /\ \A m \in DOMAIN wtools :
                        n \in DOMAIN wtools[m].tag_colors => j <= m].tag_colors[n]]

\* lines 172-175: sorted by name
SortedTags(tags_dict) ==
    LET names == SelectSeq(TagNames, LAMBDA n : n \in DOMAIN tags_dict)
    IN  [k \in DOMAIN names |-> [name |-> names[k], color |-> tags_dict[names[k]]]]

\* lines 163-175
ExtractedTags(wtools) == SortedTags(TagsDict(wtools))

\* str.lower() of a word, and of a name (names are <<word, number>>)
LowerWord(w) ==
    CASE w = "Company" -> "company"
      [] w = "Tool" -> "tool"
      [] OTHER -> w
Lower(name) == <<LowerWord(name[1]), name[2]>>

\* ' '.join(words).lower(): the text is kept as the sequence of its words
JoinLower(words) == [k \in DOMAIN words |-> LowerWord(words[k])]
JoinLowerNames(names) == [k \in DOMAIN names |-> Lower(names[k])]

\* lines 136-143: the index entry of an enriched company
CompanyEntry(company) ==
    [type        |-> "company",
     id          |-> company.id,
     name        |-> company.name,
     url         |-> company.url,
     search_text |-> Lower(company.name),
     tool_count  |-> company.tool_count]

\* lines 146-158: the index entry of an enriched tool; the f-string is kept as
\* its three parts
ToolEntry(tool) ==
    [type          |-> "tool",
     id            |-> tool.id,
     name          |-> tool.name,
     url           |-> tool.url,
     tags          |-> tool.tags,
     search_text   |-> <<Lower(tool.name), JoinLower(tool.tags),
                         JoinLowerNames([k \in DOMAIN tool.companies |->
                                            tool.companies[k].name])>>,
     company_count |-> Len(tool.companies)]

\* lines 121-160 (SearchIndexToolsFirst: the faulty variant with the two loops
\* swapped)
SearchIndexToolsFirst(wcompanies, wtools) ==
    [k \in DOMAIN wtools |-> ToolEntry(wtools[k])]
    \o [k \in DOMAIN wcompanies |-> CompanyEntry(wcompanies[k])]
SearchIndex(wcompanies, wtools) ==
    [k \in DOMAIN wcompanies |-> CompanyEntry(wcompanies[k])]
    \o [k \in DOMAIN wtools |-> ToolEntry(wtools[k])]

\* lines 178-186
Stats(wcompanies, wtools) ==
    [total_companies      |-> Len(wcompanies),
     total_tools          |-> Len(wtools),
     companies_with_tools |->
        Cardinality({k \in DOMAIN wcompanies : wcompanies[k].tool_count > 0}),
     tools_with_companies |->
        Cardinality({k \in DOMAIN wtools : Len(wtools[k].companies) > 0}),
     total_tags           |-> Len(ExtractedTags(wtools))]

\* lines 230-235
Combined(wcompanies, wtools, tags, st) ==
    [companies |-> wcompanies, tools |-> wtools, tags |-> tags, stats |-> st]

\* lines 195-196
BuildIndexes ==
    /\ dpc = "loaded"
    /\ tools_by_id' = ById(tools)
    /\ companies_by_id' = ById(companies)
    /\ dpc' = "indexed"
    /\ UNCHANGED <<companies, tools, web_companies, web_tools, search_index, all_tags,
                   stats, out>>

\* line 201, create_web_companies
CreateWebCompanies ==
    /\ dpc = "indexed"
    /\ IF \E i \in DOMAIN companies : CompanyRaises(companies[i], tools_by_id)
       THEN /\ dpc' = "error"
            /\ UNCHANGED web_companies
       ELSE /\ web_companies' =
                   [i \in DOMAIN companies |-> WebCompany(companies[i], tools_by_id)]
            /\ dpc' = "companies_done"
    /\ UNCHANGED <<companies, tools, tools_by_id, companies_by_id, web_tools,
                   search_index, all_tags, stats, out>>

\* line 202, create_web_tools
CreateWebTools ==
    /\ dpc = "companies_done"
    /\ IF \E j \in DOMAIN tools : ToolRaises(tools[j], companies_by_id)
       THEN /\ dpc' = "error"
            /\ UNCHANGED web_tools
       ELSE /\ web_tools' = [j \in DOMAIN tools |-> WebTool(tools[j], companies_by_id)]
            /\ dpc' = "tools_done"
    /\ UNCHANGED <<companies, tools, tools_by_id, companies_by_id, web_companies,
                   search_index, all_tags, stats, out>>

\* line 203, create_search_index
CreateSearchIndex ==
    /\ dpc = "tools_done"
    /\ search_index' = SearchIndex(web_companies, web_tools)
    /\ dpc' = "index_done"
    /\ UNCHANGED <<companies, tools, tools_by_id, companies_by_id, web_companies,
                   web_tools, all_tags, stats, out>>

\* line 204, extract_all_tags
ExtractAllTags ==
    /\ dpc = "index_done"
    /\ all_tags' = ExtractedTags(web_tools)
    /\ dpc' = "tags_done"
    /\ UNCHANGED <<companies, tools, tools_by_id, companies_by_id, web_companies,
                   web_tools, search_index, stats, out>>

\* line 205, calculate_stats
CalculateStats ==
    /\ dpc = "tags_done"
    /\ stats' = Stats(web_companies, web_tools)
    /\ dpc' = "stats_done"
    /\ UNCHANGED <<companies, tools, tools_by_id, companies_by_id, web_companies,
                   web_tools, search_index, all_tags, out>>

\* lines 208-227: the individual files
SaveIndividualFiles ==
    /\ dpc = "stats_done"
    /\ out' = Put(Put(Put(Put(Put(out, "companies.json", web_companies),
                               "tools.json", web_tools),
                           "search_index.json", search_index),
                       "tags.json", all_tags),
                   "stats.json", stats)
    /\ dpc' = "files_saved"
    /\ UNCHANGED <<companies, tools, tools_by_id, companies_by_id, web_companies,
                   web_tools, search_index, all_tags, stats>>

\* lines 230-238: the combined file
SaveCombined ==
    /\ dpc = "files_saved"
    /\ out' = Put(out, "all_data.json", Combined(web_companies, web_tools, all_tags, stats))
    /\ dpc' = "done"
    /\ UNCHANGED <<companies, tools, tools_by_id, companies_by_id, web_companies,
                   web_tools, search_index, all_tags, stats>>

DenormIdle ==
    /\ dpc = "idle"
    /\ companies = <<>>
    /\ tools = <<>>
    /\ tools_by_id = EmptyDict
    /\ companies_by_id = EmptyDict
    /\ web_companies = <<>>
    /\ web_tools = <<>>
    /\ search_index = <<>>
    /\ all_tags = <<>>
    /\ stats = EmptyDict
    /\ out = EmptyDict

FetcherIdle ==
    /\ token = TRUE
    /\ pc = "validate"
    /\ tbl = 0
    /\ limit = None
    /\ chain = <<0>>
    /\ all_rows = <<>>
    /\ url = 1
    /\ attempt = 0
    /\ response = None
    /\ hist = <<>>
    /\ slept = <<>>
    /\ served = <<>>
    /\ reqPages = {}
    /\ fatal = {}
    /\ files = EmptyDict
    /\ results_summary = EmptyDict
    /\ exit_status = NotExited
    /\ failures = 0

\* lines 192: the snapshots are loaded
DenormInit ==
    /\ \E input \in SnapshotInputs(MaxRows) :
          /\ companies = input[1]
          /\ tools = input[2]
    /\ dpc = "loaded"
    /\ tools_by_id = EmptyDict
    /\ companies_by_id = EmptyDict
    /\ web_companies = <<>>
    /\ web_tools = <<>>
    /\ search_index = <<>>
    /\ all_tags = <<>>
    /\ stats = EmptyDict
    /\ out = EmptyDict
    /\ FetcherIdle

DenormNext ==
    \/ (BuildIndexes /\ UNCHANGED <<fvars, failures>>)
    \/ (CreateWebCompanies /\ UNCHANGED <<fvars, failures>>)
    \/ (CreateWebTools /\ UNCHANGED <<fvars, failures>>)
    \/ (CreateSearchIndex /\ UNCHANGED <<fvars, failures>>)
    \/ (ExtractAllTags /\ UNCHANGED <<fvars, failures>>)
    \/ (CalculateStats /\ UNCHANGED <<fvars, failures>>)
    \/ (SaveIndividualFiles /\ UNCHANGED <<fvars, failures>>)
    \/ (SaveCombined /\ UNCHANGED <<fvars, failures>>)

DenormSpec == DenormInit /\ [][DenormNext]_vars

\* The same run on snapshots with a row that lacks a field
MissingFieldInit ==
    /\ \E input \in MissingFieldInputs(MaxRows) :
          /\ companies = input[1]
          /\ tools = input[2]
    /\ dpc = "loaded"
    /\ tools_by_id = EmptyDict
    /\ companies_by_id = EmptyDict
    /\ web_companies = <<>>
    /\ web_tools = <<>>
    /\ search_index = <<>>
    /\ all_tags = <<>>
    /\ stats = EmptyDict
    /\ out = EmptyDict
    /\ FetcherIdle

MissingFieldSpec == MissingFieldInit /\ [][DenormNext]_vars

-----------------------------------------------------------------------------
(* Specifications of the Fetcher *)

FetchCallInit ==
    /\ all_rows = <<>>
    /\ url = 1
    /\ attempt = 0
    /\ response = None
    /\ hist = <<>>
    /\ slept = <<>>
    /\ served = <<>>
    /\ reqPages = {}

HistoryInit ==
    /\ fatal = {}
    /\ files = EmptyDict
    /\ results_summary = EmptyDict
    /\ exit_status = NotExited
    /\ failures = 0

Init ==
    /\ token \in BOOLEAN
    /\ pc = "validate"
    /\ tbl = 0
    /\ limit = None
    /\ chain = <<0>>
    /\ FetchCallInit
    /\ HistoryInit
    /\ DenormIdle

Next ==
    \/ (ValidateConfig /\ UNCHANGED <<dvars, failures>>)
    \/ (EnsureOutputDirectory /\ UNCHANGED <<dvars, failures>>)
    \/ (StartTable /\ UNCHANGED <<dvars, failures>>)
    \/ (RequestSuccess /\ UNCHANGED <<dvars, failures>>)
    \/ (RequestRetryable /\ UNCHANGED <<dvars, failures>>)
    \/ (RequestOtherStatus /\ UNCHANGED <<dvars, failures>>)
    \/ (RequestException /\ UNCHANGED <<dvars, failures>>)
    \/ (ParseRaises /\ UNCHANGED <<dvars, failures>>)
    \/ (ParsePage /\ UNCHANGED <<dvars, failures>>)
    \/ (ExportTable /\ UNCHANGED <<dvars, failures>>)
    \/ (HandleException /\ UNCHANGED <<dvars, failures>>)
    \/ (Finish /\ UNCHANGED <<dvars, failures>>)

Spec == Init /\ [][Next]_vars

\* What a step of the call adds to the count of its failed attempts: a
\* request answered by anything but 200
CountFailures ==
    failures' = IF pc = "request" /\ hist'[Len(hist')] # 200 THEN failures + 1 ELSE failures

\* One call fetch_table_with_pagination(table_name, table_id, limit)
Limits == {None} \cup {Some(l) : l \in 0..MaxLimit}

FetchInit ==
    /\ token = TRUE
    /\ pc = "request"
    /\ tbl = 1
    /\ limit \in Limits
    /\ chain \in Chains
    /\ FetchCallInit
    /\ HistoryInit
    /\ DenormIdle

FetchNext ==
    \/ (RequestSuccess /\ UNCHANGED dvars /\ CountFailures)
    \/ (RequestRetryable /\ UNCHANGED dvars /\ CountFailures)
    \/ (RequestOtherStatus /\ UNCHANGED dvars /\ CountFailures)
    \/ (RequestException /\ UNCHANGED dvars /\ CountFailures)
    \/ (ParseRaises /\ UNCHANGED dvars /\ CountFailures)
    \/ (ParsePage /\ UNCHANGED dvars /\ CountFailures)

FetchSpec == FetchInit /\ [][FetchNext]_vars

\* The same call, its steps taken as long as one is possible (the process runs
\* on and every request is answered)
FetchLiveSpec == FetchInit /\ [][FetchNext]_vars /\ WF_vars(FetchNext)

-----------------------------------------------------------------------------
(* Properties of the Fetcher *)

Last(s) == s[Len(s)]
Repeat(x, n) == [i \in 1..n |-> x]
Terminal == {"returned", "raised", "exited", "done"}

\* C1: one page request answered by N consecutive 503 and then 200, N below
\* the retry budget, is fetched, and the delays slept are the first N entries
\* of RETRY_DELAYS; answered by 3 consecutive 503, the process exits with
\* status 1 after exactly 3 requests for the page.
C1_RetryBudget ==
    /\ \A n \in 0..(MAX_RETRIES - 1) :
          hist = Append(Repeat(503, n), 200)
          => /\ pc \in {"parse", "returned", "raised"}
             /\ response # None /\ response[1].status = 200
             /\ slept = SubSeq(RETRY_DELAYS, 1, n)
             /\ Sum(slept) = Sum(SubSeq(RETRY_DELAYS, 1, n))
    /\ (Len(hist) >= MAX_RETRIES /\ SubSeq(hist, 1, MAX_RETRIES) = Repeat(503, MAX_RETRIES))
          => /\ Len(hist) = MAX_RETRIES
             /\ pc = "exited"
             /\ exit_status = 1
    /\ Len(hist) <= MAX_RETRIES

C1_Witness ==
    /\ hist = <<503, 503, 200>>
    /\ pc = "parse"
    /\ Sum(slept) = 3

\* The rows a limit lets through: all of them without a limit, the first L
\* with a limit L.
Truncated(rows, l) == IF l = None THEN rows ELSE SubSeq(rows, 1, Min(l[1], Len(rows)))

\* C2: the rows written to a table's snapshot file are the rows of the pages
\* served with status 200, concatenated in page order and truncated to the
\* row limit; the row count recorded is their number.
C2_SnapshotIsConcatenation ==
    \A i \in 1..Len(TableOrder) :
        TableOrder[i] \in DOMAIN files
        => /\ i <= tbl
           /\ TableOrder[i] \in DOMAIN results_summary
           /\ results_summary[TableOrder[i]] =
                  [rows |-> Len(files[TableOrder[i]]), status |-> "success"]
           /\ files[TableOrder[i]] = [k \in 1..Len(files[TableOrder[i]]) |-> k]
           /\ (i = tbl => files[TableOrder[i]] = Truncated(served, limit))

C2_Witness ==
    /\ pc = "loop"
    /\ tbl = 2
    /\ "tools" \in DOMAIN files
    /\ files["tools"] = served
    /\ Len(files["tools"]) > PageSize

\* Steps the call can still take: a variant that every step decreases.
PagesLeft == IF url = Null THEN 0 ELSE Len(chain) - url + 1
Variant ==
    IF pc \in Terminal THEN 0
    ELSE (PagesLeft - 1) * (MAX_RETRIES + 1)
         + (IF pc = "request" THEN MAX_RETRIES - attempt + 1 ELSE 1)

\* C3: fetch_table_with_pagination terminates on every finite chain of pages:
\* every step decreases a natural-number variant, no page is requested more
\* than 3 times, the call ends (returns, raises or exits), and it returns
\* only when `next` is null, the page has no rows or the row limit is reached.
C3_Terminates ==
    /\ [][Variant' < Variant /\ Variant' >= 0 /\ Len(hist') <= MAX_RETRIES]_vars
    /\ <>(pc \in Terminal)
    /\ [](pc = "returned"
           => \/ url = Null
              \/ chain[url] = 0
              \/ (limit # None /\ Len(all_rows) = limit[1]))

C3_Witness ==
    /\ pc = "returned"
    /\ Len(chain) = MaxPages
    /\ url = Null
    /\ reqPages = 1..MaxPages

\* C4 as stated: retry exactly on 429, any 5xx or a transport failure; any
\* other non-2xx status ends the fetch; a 2xx response is never a failure.
ClaimedRetryable(o) == o = 429 \/ o \in 500..599 \/ o = TransportFailure
RetriedOutcomes == {429, 500, 502, 503, 504, TransportFailure}
C5_FailureDoesNotAbortRun ==
    fatal # {}
    => /\ pc # "exited"
       /\ pc = "done" => \A t \in fatal : /\ t \in DOMAIN results_summary
                                          /\ results_summary[t].status = "failed"

\* C6: a table whose fetch failed fatally has no snapshot file and is never
\* recorded as a success; a snapshot file exists only for a table whose
\* pagination loop has completed.
C6_NoSnapshotAfterFatalFailure ==
    /\ \A t \in fatal :
          /\ t \notin DOMAIN files
          /\ t \in DOMAIN results_summary => results_summary[t].status # "success"
    /\ \A i \in 1..Len(TableOrder) :
          TableOrder[i] \in DOMAIN files
          => /\ i <= tbl
             /\ i = tbl => pc \in {"loop", "done"}

C6_Witness ==
    /\ fatal = {"tools"}
    /\ served # <<>>
    /\ pc = "exited"
    /\ DOMAIN files = {"companies"}

\* C7: without a token the run ends with exit status 1 at validate_config:
\* no HTTP request has been issued and no snapshot file written.
C7_NoTokenNoWork ==
    ~token
    => /\ pc \in {"validate", "exited"}
       /\ pc = "exited" => exit_status = 1
       /\ tbl = 0
       /\ hist = <<>>
       /\ reqPages = {}
       /\ DOMAIN files = {}
       /\ DOMAIN results_summary = {}

C7_Witness ==
    /\ ~token
    /\ pc = "exited"
    /\ exit_status = 1

\* Rows the chain offers: those of the pages before its first empty page.
RECURSIVE Available(_)
Available(c) == IF c = <<>> \/ c[1] = 0 THEN 0 ELSE c[1] + Available(Tail(c))

\* The page on which the accumulated row count first reaches n (the last page
\* when it never does).
FirstReaching(c, n) ==
    IF \E p \in 1..Len(c) : Sum(SubSeq(c, 1, p)) >= n
    THEN CHOOSE p \in 1..Len(c) :
             /\ Sum(SubSeq(c, 1, p)) >= n
             /\ \A q \in 1..(p - 1) : Sum(SubSeq(c, 1, q)) < n
    ELSE Len(c)

\* C8 as stated: with a row limit L >= 0 the call returns min(L, rows
\* available) rows and requests no page after the one on which the count
\* first reached L.
C8_LimitExact ==
    (pc = "returned" /\ limit # None)
    => /\ Len(all_rows) = Min(limit[1], Available(chain))
       /\ reqPages \subseteq 1..FirstReaching(chain, limit[1])

-----------------------------------------------------------------------------
(* Properties of the Denormalizer *)

Enriched == {"companies_done", "tools_done", "index_done", "tags_done", "stats_done",
             "files_saved", "done"}

\* C9: every embedded tool of a company (company of a tool) answers a
\* reference of that row's own list whose id is the id of a row of the opposite
\* snapshot; a reference whose id no row has yields no entry and no error;
\* tool_count is the number of embedded tools.
C9_ReferenceResolution ==
    /\ dpc # "error"
    /\ dpc \in Enriched
       => /\ DOMAIN web_companies = DOMAIN companies
          /\ \A i \in DOMAIN companies :
                LET refs == companies[i]["Tools"]
                    wc   == web_companies[i]
                IN  /\ \A k \in DOMAIN wc.tools :
                          \E r \in DOMAIN refs, m \in DOMAIN tools :
                              /\ tools[m]["id"] = refs[r].id
                              /\ wc.tools[k].id = tools[m]["UUID"]
                    /\ Len(wc.tools) =
                          Cardinality({r \in DOMAIN refs :
                                          \E m \in DOMAIN tools : tools[m]["id"] = refs[r].id})
                    /\ wc.tool_count = Len(wc.tools)
    /\ dpc \in Enriched \ {"companies_done"}
       => /\ DOMAIN web_tools = DOMAIN tools
          /\ \A j \in DOMAIN tools :
                LET refs == tools[j]["ToolCompany"]
                    wt   == web_tools[j]
                IN  /\ \A k \in DOMAIN wt.companies :
                          \E r \in DOMAIN refs, m \in DOMAIN companies :
                              /\ companies[m]["id"] = refs[r].id
                              /\ wt.companies[k].id = companies[m]["UUID"]
                    /\ Len(wt.companies) =
                          Cardinality({r \in DOMAIN refs :
                                          \E m \in DOMAIN companies :
                                              companies[m]["id"] = refs[r].id})

C9_Witness ==
    /\ dpc = "tags_done"
    /\ \E i \in DOMAIN companies :
          /\ Len(companies[i]["Tools"]) = 2
          /\ web_companies[i].tool_count = 1
    /\ \E i \in DOMAIN companies :
          /\ companies[i]["Tools"] # <<>>
          /\ web_companies[i].tool_count = 0
          /\ web_companies[i].tools = <<>>

\* Where a tag name occurs: <<tool, position in the tool's tag list>>
Occurrences(n) ==
    {o \in UNION {{<<j, k>> : k \in DOMAIN tools[j]["Tool Tags"]} : j \in DOMAIN tools} :
        tools[o[1]]["Tool Tags"][o[2]].value = n}
FirstOccurrence(n) ==
    CHOOSE o \in Occurrences(n) :
        \A p \in Occurrences(n) : o[1] < p[1] \/ (o[1] = p[1] /\ o[2] <= p[2])
NamePosition(n) == CHOOSE k \in DOMAIN TagNames : TagNames[k] = n
EveryTagHasColor ==
    \A j \in DOMAIN tools : \A k \in DOMAIN tools[j]["Tool Tags"] :
        "color" \in DOMAIN tools[j]["Tool Tags"][k]

\* C10 as stated (for tags that all carry a color): the tag catalog holds each
\* tag name of the tools once, with the color of the name's first occurrence
\* over the tools in input order and, within a tool, in tag-list order, and is
\* sorted by name.
C10_TagCatalogFirstColor ==
    (dpc = "tags_done" /\ EveryTagHasColor)
    => /\ {all_tags[k].name : k \in DOMAIN all_tags} =
              {n \in {TagNames[k] : k \in DOMAIN TagNames} : Occurrences(n) # {}}
       /\ \A k, l \in DOMAIN all_tags :
              k < l => NamePosition(all_tags[k].name) < NamePosition(all_tags[l].name)
       /\ \A k \in DOMAIN all_tags :
              all_tags[k].color =
                  tools[FirstOccurrence(all_tags[k].name)[1]]["Tool Tags"]
                       [FirstOccurrence(all_tags[k].name)[2]].color

Indexed == {"index_done", "tags_done", "stats_done", "files_saved", "done"}

\* C13: the search index holds one entry for each enriched company, of type
\* company and in the companies' input order, followed by one entry for each
\* enriched tool, of type tool and in the tools' input order; no tool entry
\* comes before a company entry.
C13_SearchIndexOrder ==
    dpc \in Indexed
    => /\ Len(search_index) = Len(web_companies) + Len(web_tools)
       /\ Len(web_companies) = Len(companies)
       /\ Len(web_tools) = Len(tools)
       /\ \A i \in DOMAIN companies :
              /\ search_index[i].type = "company"
              /\ search_index[i].id = web_companies[i].id
              /\ search_index[i].id = companies[i]["UUID"]
              /\ search_index[i].name = companies[i]["Company Name"]
       /\ \A j \in DOMAIN tools :
              /\ search_index[Len(companies) + j].type = "tool"
              /\ search_index[Len(companies) + j].id = web_tools[j].id
              /\ search_index[Len(companies) + j].id = tools[j]["UUID"]
              /\ search_index[Len(companies) + j].name = tools[j]["ToolName"]
       /\ \A k, l \in DOMAIN search_index :
              (search_index[k].type = "tool" /\ search_index[l].type = "company") => l < k

C13_Witness ==
    /\ dpc = "index_done"
    /\ Len(web_companies) = 2
    /\ Len(web_tools) = 2
    /\ Len(search_index) = 4
    /\ search_index[2].type = "company"
    /\ search_index[3].type = "tool"

\* C11: once the run is done, all_data.json holds each artifact under its own
\* key (companies, tools, search_index, tags, stats) with the content of the
\* individual file written in the same run.
C11_CombinedHoldsEveryArtifact ==
    dpc = "done"
    => /\ {"companies", "tools", "search_index", "tags", "stats"}
              \subseteq DOMAIN out["all_data.json"]
       /\ out["all_data.json"].companies = out["companies.json"]
       /\ out["all_data.json"].tools = out["tools.json"]
       /\ out["all_data.json"].search_index = out["search_index.json"]
       /\ out["all_data.json"].tags = out["tags.json"]
       /\ out["all_data.json"].stats = out["stats.json"]

StatsReady == {"stats_done", "files_saved", "done"}

\* The rows a reference list resolves to, read off the snapshots
ResolvedIn(refs, rows) ==
    {r \in DOMAIN refs : \E m \in DOMAIN rows : rows[m]["id"] = refs[r].id}

\* The tag names in the tag lists of the enriched tools
TagNamesSeen ==
    UNION {{web_tools[j].tags[k] : k \in DOMAIN web_tools[j].tags} : j \in DOMAIN web_tools}

\* C14: the stats agree with the enriched collections of the run:
\* total_companies and total_tools are their sizes, companies_with_tools
\* (tools_with_companies) counts the companies (tools) with at least one
\* resolved reference, and total_tags is the number of distinct tag names in
\* the tag lists of the enriched tools.
C14_StatsAgree ==
    dpc \in StatsReady
    => /\ stats.total_companies = Len(web_companies)
       /\ stats.total_tools = Len(web_tools)
       /\ stats.companies_with_tools =
              Cardinality({i \in DOMAIN companies :
                              ResolvedIn(companies[i]["Tools"], tools) # {}})
       /\ stats.tools_with_companies =
              Cardinality({j \in DOMAIN tools :
                              ResolvedIn(tools[j]["ToolCompany"], companies) # {}})
       /\ stats.total_tags = Cardinality(TagNamesSeen)

\* C12: a snapshot row that lacks a field the Denormalizer reads (or holds
\* null for a reference list) never ends the run with an error, and the run
\* puts the empty default in the place of a missing list.
C12_MissingFieldTolerated ==
    /\ dpc # "error"
    /\ dpc \in Enriched
       => \A i \in DOMAIN companies :
              ("Tools" \notin DOMAIN companies[i] \/ IsNull(Get(companies[i], "Tools", <<>>)))
              => /\ web_companies[i].tools = <<>>
                 /\ web_companies[i].tool_count = 0
    /\ dpc \in Enriched \ {"companies_done"}
       => \A j \in DOMAIN tools :
              /\ ("ToolCompany" \notin DOMAIN tools[j]
                      \/ IsNull(Get(tools[j], "ToolCompany", <<>>)))
                 => web_tools[j].companies = <<>>
              /\ ("Tool Tags" \notin DOMAIN tools[j]
                      \/ IsNull(Get(tools[j], "Tool Tags", <<>>)))
                 => web_tools[j].tags = <<>>

-----------------------------------------------------------------------------
(* The retry budget *)

AllTransient(h) == \A k \in DOMAIN h : h[k] \in TransientOutcomes

\* C15: the retry budget is per page: the attempt counter is the number of
\* failed requests for the page `url` points at and is 0 again when the call
\* moves to a new page; the call ends fatally on transient failures only at
\* the third consecutive failed request for one page, so that it absorbs
\* MAX_RETRIES - 1 failures (429, 500, 502, 503, 504 or a transport failure,
\* mixed) on every page it requests; and a body is parsed, and rows are
\* taken from it, only when the last request for the page was answered 200.
C15_RetryBudgetPerPage ==
    /\ \A s \in {429, 500, 502, 503, 504} : IsRetryable(s)
    /\ [](pc = "request"
            => /\ attempt = Len(hist)
               /\ attempt < MAX_RETRIES
               /\ AllTransient(hist))
    /\ [][(pc = "parse" /\ pc' = "request") => (url' # url /\ attempt' = 0)]_vars
    /\ [](pc = "exited"
            => \/ Last(hist) \notin TransientOutcomes
               \/ /\ Len(hist) = MAX_RETRIES
                  /\ AllTransient(hist))
    /\ [](failures <= (MAX_RETRIES - 1) * Cardinality(reqPages)
                          + (IF pc = "exited" THEN 1 ELSE 0))
    /\ [](pc = "parse"
            => /\ response # None
               /\ response[1].status = 200
               /\ Last(hist) = 200
               /\ Len(hist) <= MAX_RETRIES
               /\ AllTransient(SubSeq(hist, 1, Len(hist) - 1)))
    /\ [][all_rows' # all_rows => (pc = "parse" /\ response[1].status = 200)]_vars

C15_Witness ==
    /\ pc = "returned"
    /\ Len(chain) >= 2
    /\ url = Len(chain)
    /\ hist = <<429, TransportFailure, 200>>
    /\ failures = (MAX_RETRIES - 1) * Len(chain)
    /\ failures > MAX_RETRIES
    /\ all_rows = served
    /\ all_rows # <<>>

====
